---- MODULE Spec2Model ----
(***************************************************************************)
(* Model of seacrowd/sea_datasets/nusaparagraph_emot/nusaparagraph_emot.py *)
(*                                                                         *)
(* A Python string is modelled as a sequence of tokens, so that            *)
(* str.format (substitution of "{lang}"/"{schema}" placeholders) and       *)
(* str.split('_') are computed rather than assumed: the separator "_" is   *)
(* a token of its own, the schema name seacrowd_text is the three tokens   *)
(* "seacrowd", "_", "text", and the empty string is the empty sequence.    *)
(* A data frame is a sequence of rows, a row a function from column name   *)
(* to value.                                                               *)
(***************************************************************************)
EXTENDS Integers, Sequences, FiniteSets, TLC

VARIABLES
    phase,      \* "init", "constructed", "ready", "no default", "info", "split", "failed", "done"
    call,       \* arguments of the last call of seacrowd_config_constructor
    built,      \* result of that call
    config,     \* self.config of the builder
    features,   \* result of _info
    requested,  \* the calls made to dl_manager.download_and_extract, in order
    splits,     \* the list of SplitGenerators returned by _split_generators
    filepath,   \* the filepath argument of the running _generate_examples
    disk,       \* contents of the downloaded files, by local path
    result      \* outcome of _generate_examples: raised, emitted, parsed

vars == <<phase, call, built, config, features, requested, splits, filepath, disk, result>>

----------------------------------------------------------------------------
(* Bounds of the input space *)

\* largest number of rows of one downloaded CSV file
MaxRows == 2

\* the `id` column of a file holds 0 or MaxId (a value that is no row position)
MaxId == 12

----------------------------------------------------------------------------
(* Strings *)

US == "_"

Digits == <<"0", "1", "2", "3", "4", "5", "6", "7", "8", "9">>

\* str(n) for a non-negative integer n: its decimal digits
RECURSIVE str(_)
str(n) == IF n < 10 THEN <<Digits[n + 1]>>
          ELSE str(n \div 10) \o <<Digits[(n % 10) + 1]>>

\* template.format(**kw): every placeholder token is replaced by its argument
RECURSIVE format(_, _)
format(template, kw) ==
    IF template = <<>> THEN <<>>
    ELSE (IF Head(template) \in DOMAIN kw THEN kw[Head(template)] ELSE <<Head(template)>>)
         \o format(Tail(template), kw)

\* s.split(sep): the segments of s between the separator tokens
RECURSIVE split(_, _)
split(s, sep) ==
    IF \A i \in 1..Len(s) : s[i] # sep THEN <<s>>
    ELSE LET i == CHOOSE j \in 1..Len(s) : s[j] = sep /\ \A k \in 1..(j - 1) : s[k] # sep
         IN  <<SubSeq(s, 1, i - 1)>> \o split(SubSeq(s, i + 1, Len(s)), sep)

----------------------------------------------------------------------------
(* Module constants *)

_DATASETNAME == <<"nusaparagraph", US, "emot">>

SOURCE == <<"source">>
SEACROWD_TEXT == <<"seacrowd", US, "text">>

_SOURCE_VERSION == "1.0.0"
_SEACROWD_VERSION == "1.0.0"

URL_PREFIX == "https://raw.githubusercontent.com/IndoNLP/nusa-writes/main/data/nusa_alinea-emot-"

_URLS == [train      |-> <<URL_PREFIX, "{lang}", "-train.csv">>,
          validation |-> <<URL_PREFIX, "{lang}", "-valid.csv">>,
          test       |-> <<URL_PREFIX, "{lang}", "-test.csv">>]

\* the keys of the dict LANGUAGES_MAP in insertion (= iteration) order
LANGUAGES_MAP == << <<"btk">>, <<"bew">>, <<"bug">>, <<"jav">>, <<"mad">>,
                    <<"mak">>, <<"min">>, <<"mui">>, <<"rej">>, <<"sun">> >>

NoConfig == [name |-> <<>>, schema |-> <<>>, version |-> "", description |-> <<>>,
             subset_id |-> <<>>]

SEACrowdConfig(name, version, description, schema, subset_id) ==
    [name |-> name, version |-> version, description |-> description,
     schema |-> schema, subset_id |-> subset_id]

\* variant: the schema test joins its two comparisons with "or"
seacrowd_config_constructor_or(lang, schema, version) ==
    IF schema # SOURCE \/ schema # SEACROWD_TEXT
    THEN [raised |-> "ValueError: Invalid schema", config |-> NoConfig]
    ELSE [raised |-> "none",
          config |-> SEACrowdConfig(<<>>, version, <<>>, schema, _DATASETNAME)]

seacrowd_config_constructor(lang, schema, version) ==
    IF schema # SOURCE /\ schema # SEACROWD_TEXT
    THEN [raised |-> "ValueError: Invalid schema", config |-> NoConfig]
    ELSE IF lang = <<>>
    THEN [raised |-> "none",
          config |-> SEACrowdConfig(
              format(<<"nusaparagraph", US, "emot", US, "{schema}">>,
                     [x \in {"{schema}"} |-> schema]),
              version,
              format(<<"nusaparagraph_emot with ", "{schema}", " schema for all 10 languages">>,
                     [x \in {"{schema}"} |-> schema]),
              schema,
              _DATASETNAME)]
    ELSE [raised |-> "none",
          config |-> SEACrowdConfig(
              format(<<"nusaparagraph", US, "emot", US, "{lang}", US, "{schema}">>,
                     [x \in {"{lang}", "{schema}"} |-> IF x = "{lang}" THEN lang ELSE schema]),
              version,
              format(<<"nusaparagraph_emot with ", "{schema}", " schema for ", "{lang}", " language">>,
                     [x \in {"{lang}", "{schema}"} |-> IF x = "{lang}" THEN lang ELSE schema]),
              schema,
              _DATASETNAME)]

\* variant: the second comprehension builds the source configurations again
BUILDER_CONFIGS_source_twice ==
    [i \in 1..Len(LANGUAGES_MAP) |->
        seacrowd_config_constructor(LANGUAGES_MAP[i], SOURCE, _SOURCE_VERSION).config]
    \o [i \in 1..Len(LANGUAGES_MAP) |->
        seacrowd_config_constructor(LANGUAGES_MAP[i], SOURCE, _SEACROWD_VERSION).config]
    \o << seacrowd_config_constructor(<<>>, SOURCE, _SOURCE_VERSION).config,
          seacrowd_config_constructor(<<>>, SEACROWD_TEXT, _SEACROWD_VERSION).config >>

BUILDER_CONFIGS ==
    [i \in 1..Len(LANGUAGES_MAP) |->
        seacrowd_config_constructor(LANGUAGES_MAP[i], SOURCE, _SOURCE_VERSION).config]
    \o [i \in 1..Len(LANGUAGES_MAP) |->
        seacrowd_config_constructor(LANGUAGES_MAP[i], SEACROWD_TEXT, _SEACROWD_VERSION).config]
    \o << seacrowd_config_constructor(<<>>, SOURCE, _SOURCE_VERSION).config,
          seacrowd_config_constructor(<<>>, SEACROWD_TEXT, _SEACROWD_VERSION).config >>

DEFAULT_CONFIG_NAME == <<"nusaparagraph", US, "emot", US, "ind", US, "source">>

----------------------------------------------------------------------------
(* _info *)

LABELS == <<"fear", "disgusted", "sad", "happy", "angry", "surprise", "shame">>

\* label_names is empty when the label feature is a free string
_info(cfg) ==
    IF cfg.schema = SOURCE
    THEN [raised |-> "none", label |-> "string", label_names |-> <<>>]
    ELSE IF cfg.schema = SEACROWD_TEXT
    THEN [raised |-> "none", label |-> "ClassLabel", label_names |-> LABELS]
    ELSE [raised |-> "UnboundLocalError", label |-> "", label_names |-> <<>>]

----------------------------------------------------------------------------
(* _split_generators *)

\* variant: only the source name is recognised as the all-languages configuration
IsAllLanguages_source_only(name) ==
    name = <<"nusaparagraph", US, "emot", US, "source">>

\* the test of lines 117 and 159: the configuration is an all-languages one
IsAllLanguages(name) ==
    \/ name = <<"nusaparagraph", US, "emot", US, "source">>
    \/ name = <<"nusaparagraph", US, "emot", US, "seacrowd", US, "text">>

\* dl_manager.download_and_extract of one URL: the local path of its copy
download_and_extract(url) == <<"cache/">> \o url

SplitNames == <<"train", "validation", "test">>

\* variant: the segment before the language code is taken
LangOfName_off_by_one(name) == split(name, US)[2]

\* self.config.name.split('_')[2]
LangOfName(name) == split(name, US)[3]

\* the URLs asked for one split, as the argument of one download_and_extract call
UrlsOfSplit(name, s) ==
    IF IsAllLanguages(name)
    THEN [kind |-> "list",
          urls |-> [i \in 1..Len(LANGUAGES_MAP) |->
                       format(_URLS[s], [x \in {"{lang}"} |-> LANGUAGES_MAP[i]])]]
    ELSE [kind |-> "str",
          urls |-> <<format(_URLS[s], [x \in {"{lang}"} |-> LangOfName(name)])>>]

\* what download_and_extract returns for that argument (wrapped in Path when single)
PathsOf(arg) ==
    [kind  |-> IF arg.kind = "list" THEN "list" ELSE "Path",
     paths |-> [i \in 1..Len(arg.urls) |-> download_and_extract(arg.urls[i])]]

_split_generators(cfg) ==
    IF ~IsAllLanguages(cfg.name) /\ Len(split(cfg.name, US)) < 3
    THEN [raised |-> "IndexError", requested |-> <<>>, splits |-> <<>>]
    ELSE [raised    |-> "none",
          requested |-> [i \in 1..3 |-> UrlsOfSplit(cfg.name, SplitNames[i])],
          splits    |-> [i \in 1..3 |->
                           [name     |-> SplitNames[i],
                            filepath |-> PathsOf(UrlsOfSplit(cfg.name, SplitNames[i]))]]]

----------------------------------------------------------------------------
(* Data frames: a sequence of rows; the field Index of a row is its index label *)

\* pd.read_csv(fp): the rows of the file, indexed 0..N-1
read_csv(fp, dsk) ==
    [k \in 1..Len(dsk[fp]) |->
        [c \in {"Index", "id", "text", "label"} |->
            IF c = "Index" THEN k - 1 ELSE dsk[fp][k][c]]]

RECURSIVE Flatten(_)
Flatten(ldf) == IF ldf = <<>> THEN <<>> ELSE Head(ldf) \o Flatten(Tail(ldf))

\* variant: pd.concat without ignore_index, every row keeps the index of its file
concat_keep_index(ldf) == Flatten(ldf)

\* pd.concat(ldf, axis=0, ignore_index=True): rows in list order, index 0..M-1
concat(ldf) ==
    LET all == Flatten(ldf)
    IN  [k \in 1..Len(all) |->
            [c \in DOMAIN all[k] |-> IF c = "Index" THEN k - 1 ELSE all[k][c]]]

\* df.reset_index(): the old index becomes the column "index", new index 0..N-1
reset_index(df) ==
    [k \in 1..Len(df) |->
        [c \in DOMAIN df[k] \cup {"index"} |->
            IF c = "index" THEN df[k]["Index"]
            ELSE IF c = "Index" THEN k - 1
            ELSE df[k][c]]]

\* df.drop(columns=cols)
drop(df, cols) ==
    [k \in 1..Len(df) |-> [c \in DOMAIN df[k] \ cols |-> df[k][c]]]

\* df.rename(columns={old: new})
rename(df, old, new) ==
    [k \in 1..Len(df) |->
        [c \in (DOMAIN df[k] \ {old}) \cup {new} |->
            IF c = new THEN df[k][old] ELSE df[k][c]]]

----------------------------------------------------------------------------
(* _generate_examples *)

\* variant: the schema test joins its two comparisons with "or"
InvalidConfig_or(cfg) == cfg.schema # SOURCE \/ cfg.schema # SEACROWD_TEXT

\* line 157: the schema is neither of the two recognised ones
InvalidConfig(cfg) == cfg.schema # SOURCE /\ cfg.schema # SEACROWD_TEXT

\* variant: the single-language branch replaces the id column by the index too
FrameOf_always_reindex(cfg, fp, dsk) ==
    IF IsAllLanguages(cfg.name)
    THEN LET ldf == [i \in 1..Len(fp.paths) |-> read_csv(fp.paths[i], dsk)]
             df  == reset_index(concat(ldf))
         IN  rename(drop(df, {"id"}), "index", "id")
    ELSE rename(drop(reset_index(read_csv(fp.paths[1], dsk)), {"id"}), "index", "id")

\* lines 159-167: the frame that is iterated
FrameOf(cfg, fp, dsk) ==
    IF IsAllLanguages(cfg.name)
    THEN LET ldf == [i \in 1..Len(fp.paths) |-> read_csv(fp.paths[i], dsk)]
             df  == reset_index(concat(ldf))
         IN  rename(drop(df, {"id"}), "index", "id")
    ELSE reset_index(read_csv(fp.paths[1], dsk))

\* variant: the pair is keyed by the index of the row instead of its id column
Example_row_index(row) ==
    <<row["Index"],
      [id |-> str(row["Index"]), text |-> row["text"], label |-> row["label"]]>>

\* variant: the label is mapped into the label set, unknown labels to its first member
Example_label_mapped(row) ==
    <<row["id"],
      [id |-> str(row["id"]), text |-> row["text"],
       label |-> IF \E j \in 1..Len(LABELS) : LABELS[j] = row["label"]
                 THEN row["label"] ELSE LABELS[1]]>>

\* lines 169-170: the pair yielded for one row
Example(row) ==
    <<row["id"], [id |-> str(row["id"]), text |-> row["text"], label |-> row["label"]]>>

\* the generator run to exhaustion
_generate_examples(cfg, fp, dsk) ==
    IF InvalidConfig(cfg)
    THEN [raised |-> "ValueError: Invalid config", emitted |-> <<>>, parsed |-> 0]
    ELSE IF IsAllLanguages(cfg.name) # (fp.kind = "list")
    THEN [raised |-> "TypeError", emitted |-> <<>>, parsed |-> 0]
    ELSE LET df == FrameOf(cfg, fp, dsk)
         IN  [raised  |-> "none",
              emitted |-> [k \in 1..Len(df) |-> Example(df[k])],
              parsed  |-> Len(fp.paths)]

----------------------------------------------------------------------------
(* Inputs *)

\* arguments tried on seacrowd_config_constructor
LangArgs == {LANGUAGES_MAP[i] : i \in 1..Len(LANGUAGES_MAP)} \cup {<<>>, <<"ind">>}

SchemaArgs == {SOURCE, SEACROWD_TEXT, <<"seacrowd">>, <<"text">>, <<>>,
               <<"source", US, "text">>, <<"other">>}

VersionArgs == {_SOURCE_VERSION, _SEACROWD_VERSION}

\* configurations built directly with SEACrowdConfig(...), whose schema nothing checks
CustomConfigs ==
    { SEACrowdConfig(<<"nusaparagraph", US, "emot", US, "source">>, _SOURCE_VERSION,
                     <<>>, <<"other">>, _DATASETNAME),
      SEACrowdConfig(<<"nusaparagraph", US, "emot", US, "jav", US, "other">>, _SOURCE_VERSION,
                     <<>>, <<"other">>, _DATASETNAME),
      SEACrowdConfig(<<"nusaparagraph", US, "emot", US, "sun", US, "seacrowd">>,
                     _SEACROWD_VERSION, <<>>, <<"seacrowd">>, _DATASETNAME) }

Registered == {BUILDER_CONFIGS[i] : i \in 1..Len(BUILDER_CONFIGS)}

\* the rows a file is made of, as (id, label): an id that is the row's position with
\* a known label, an id that is not with a known label, and one with an unknown label
RowShapes == {[id |-> 0, label |-> "happy"],
              [id |-> MaxId, label |-> "sad"],
              [id |-> MaxId, label |-> "joy"]}

FileShapes == UNION {[1..n -> RowShapes] : n \in 0..MaxRows}

\* the i-th file of a download: its k-th paragraph is the text <<i, k>>
FileOf(i, shape) ==
    [k \in 1..Len(shape) |-> [id |-> shape[k].id, text |-> <<i, k>>, label |-> shape[k].label]]

\* the files on disk after a download: the first p hold shape A, the others shape B
DiskOf(paths, p, A, B) ==
    [q \in {paths[i] : i \in 1..Len(paths)} |->
        LET i == CHOOSE j \in 1..Len(paths) : paths[j] = q
        IN  FileOf(i, IF i <= p THEN A ELSE B)]

NoResult == [raised |-> "none", emitted |-> <<>>, parsed |-> 0]
NoPath == [kind |-> "none", paths |-> <<>>]
NoBuilt == [raised |-> "none", config |-> NoConfig]
NoCall == [lang |-> <<>>, schema |-> <<>>, version |-> ""]
NoFeatures == [raised |-> "none", label |-> "", label_names |-> <<>>]

----------------------------------------------------------------------------
(* The state machine *)

Init ==
    /\ phase = "init"
    /\ call = NoCall
    /\ built = NoBuilt
    /\ config = NoConfig
    /\ features = NoFeatures
    /\ requested = <<>>
    /\ splits = <<>>
    /\ filepath = NoPath
    /\ disk = <<>>
    /\ result = NoResult

\* a call seacrowd_config_constructor(lang, schema, version)
Construct(lang, schema, version) ==
    /\ phase = "init"
    /\ call' = [lang |-> lang, schema |-> schema, version |-> version]
    /\ built' = seacrowd_config_constructor(lang, schema, version)
    /\ phase' = "constructed"
    /\ UNCHANGED <<config, features, requested, splits, filepath, disk, result>>

\* the builder is instantiated with configuration c
SelectConfig(c) ==
    /\ phase = "init"
    /\ config' = c
    /\ phase' = "ready"
    /\ UNCHANGED <<call, built, features, requested, splits, filepath, disk, result>>

\* the builder is instantiated with no configuration name: the base class looks
\* DEFAULT_CONFIG_NAME up among the names of BUILDER_CONFIGS
SelectDefault ==
    /\ phase = "init"
    /\ IF \E i \in 1..Len(BUILDER_CONFIGS) : BUILDER_CONFIGS[i].name = DEFAULT_CONFIG_NAME
       THEN /\ config' = BUILDER_CONFIGS[CHOOSE i \in 1..Len(BUILDER_CONFIGS) :
                                             BUILDER_CONFIGS[i].name = DEFAULT_CONFIG_NAME]
            /\ phase' = "ready"
       ELSE /\ config' = NoConfig
            /\ phase' = "no default"
    /\ UNCHANGED <<call, built, features, requested, splits, filepath, disk, result>>

Info ==
    /\ phase = "ready"
    /\ features' = _info(config)
    /\ phase' = "info"
    /\ UNCHANGED <<call, built, config, requested, splits, filepath, disk, result>>

SplitGenerators ==
    /\ phase = "ready"
    /\ LET r == _split_generators(config)
       IN  /\ requested' = r.requested
           /\ splits' = r.splits
           /\ phase' = IF r.raised = "none" THEN "split" ELSE "failed"
    /\ UNCHANGED <<call, built, config, features, filepath, disk, result>>

\* the generator of split i is run to exhaustion on the files found on disk
GenerateExamples(i) ==
    /\ phase = "split"
    /\ LET fp == splits[i].filepath
       IN  \E p \in 1..Len(fp.paths) :
           \E A \in FileShapes :
           \E B \in IF p = Len(fp.paths) THEN {A} ELSE FileShapes :
               /\ filepath' = fp
               /\ disk' = DiskOf(fp.paths, p, A, B)
               /\ result' = _generate_examples(config, fp, disk')
    /\ phase' = "done"
    /\ UNCHANGED <<call, built, config, features, requested, splits>>

Next ==
    \/ \E lang \in LangArgs, schema \in SchemaArgs, version \in VersionArgs :
           Construct(lang, schema, version)
    \/ \E c \in Registered \cup CustomConfigs : SelectConfig(c)
    \/ SelectDefault
    \/ Info
    \/ SplitGenerators
    \/ \E i \in 1..3 : GenerateExamples(i)

Spec == Init /\ [][Next]_vars

----------------------------------------------------------------------------
(* Vocabulary of the properties, stated without the operators of the program *)

DecimalDigits == <<"0", "1", "2", "3", "4", "5", "6", "7", "8", "9">>

DigitValue(d) == CHOOSE v \in 0..9 : DecimalDigits[v + 1] = d

\* the integer a sequence of decimal digits spells; -1 when s is no such sequence
RECURSIVE int(_)
int(s) == IF s = <<>> \/ \E i \in 1..Len(s) : \A v \in 0..9 : DecimalDigits[v + 1] # s[i] THEN -1
          ELSE IF Len(s) = 1 THEN DigitValue(s[1])
          ELSE int(SubSeq(s, 1, Len(s) - 1)) * 10 + DigitValue(s[Len(s)])

LabelSet == {"fear", "disgusted", "sad", "happy", "angry", "surprise", "shame"}

Recognised == {<<"source">>, <<"seacrowd", "_", "text">>}

NameOf(lang, schema) ==
    IF lang = <<>> THEN <<"nusaparagraph", "_", "emot", "_">> \o schema
    ELSE <<"nusaparagraph", "_", "emot", "_", lang[1], "_">> \o schema

Languages == {<<"btk">>, <<"bew">>, <<"bug">>, <<"jav">>, <<"mad">>,
              <<"mak">>, <<"min">>, <<"mui">>, <<"rej">>, <<"sun">>}

RegistryOrder == << <<"btk">>, <<"bew">>, <<"bug">>, <<"jav">>, <<"mad">>,
                    <<"mak">>, <<"min">>, <<"mui">>, <<"rej">>, <<"sun">> >>

\* the registered configurations, by language scope
IsSingleLanguage(c) == \E l \in Languages, sc \in Recognised : c.name = NameOf(l, sc) /\ c.schema = sc
IsAggregate(c) == \E sc \in Recognised : c.name = NameOf(<<>>, sc) /\ c.schema = sc

LanguageOf(c) == CHOOSE l \in Languages : \E sc \in Recognised : c.name = NameOf(l, sc)

Suffix(s) == IF s = "train" THEN "-train.csv"
             ELSE IF s = "validation" THEN "-valid.csv" ELSE "-test.csv"

UrlOf(l, s) ==
    <<"https://raw.githubusercontent.com/IndoNLP/nusa-writes/main/data/nusa_alinea-emot-",
      l[1], Suffix(s)>>

\* the rows of the files handed to the generator, from the i-th file on, in file order
RECURSIVE InputRowsFrom(_)
InputRowsFrom(i) ==
    IF i > Len(filepath.paths) THEN <<>>
    ELSE disk[filepath.paths[i]] \o InputRowsFrom(i + 1)

InputRows == InputRowsFrom(1)

Finished == phase = "done" /\ result.raised = "none"

----------------------------------------------------------------------------
(* C1 *)

\* C1 (as claimed): for a single-language configuration and a file of N rows, N pairs
\* are emitted and the k-th (from 0) has key k and id "k", whatever ids the file holds.
C1_Reindexed ==
    LET rows == InputRows
        emitted == result.emitted
    IN
        (Finished /\ IsSingleLanguage(config)) =>
            /\ Len(emitted) = Len(rows)
            /\ \A k \in 1..Len(emitted) :
                   emitted[k][1] = k - 1 /\ emitted[k][2].id = str(k - 1)

\* C1 (amended): for a single-language configuration and a file of N rows, N pairs are
\* emitted in file order and the k-th has as key the value of the k-th row's id column
\* and as id its decimal string; the emitted ids are 0..N-1 exactly when the file's are.
C1_FileIds ==
    LET rows == InputRows
        emitted == result.emitted
    IN
        (Finished /\ IsSingleLanguage(config)) =>
            /\ Len(emitted) = Len(rows)
            /\ \A k \in 1..Len(emitted) :
                   /\ emitted[k][1] = rows[k].id
                   /\ emitted[k][2].id = str(rows[k].id)
                   /\ emitted[k][2].text = rows[k].text
            /\ (\A k \in 1..Len(emitted) : emitted[k][1] = k - 1)
                   <=> (\A k \in 1..Len(rows) : rows[k].id = k - 1)

C1_Witness ==
    LET rows == InputRows
        emitted == result.emitted
    IN
        /\ Finished /\ IsSingleLanguage(config)
        /\ Len(rows) = 2
        /\ rows[1].id = MaxId /\ rows[2].id = MaxId
        /\ emitted[1][1] = MaxId /\ emitted[2][2].id = str(MaxId)

----------------------------------------------------------------------------
(* C2 *)

\* C2: for an aggregate configuration, with M the total number of rows of the files,
\* M pairs are emitted, the k-th (from 0) has key k and id "k", and its text and label
\* are those of the k-th row of the files concatenated in registry order of languages,
\* each in file order; the id columns of the files play no part.
C2_AggregateOrder ==
    LET rows == InputRows
        emitted == result.emitted
    IN
        (Finished /\ IsAggregate(config)) =>
            /\ Len(filepath.paths) = Len(RegistryOrder)
            /\ \A i \in 1..Len(filepath.paths) :
                   \E s \in {"train", "validation", "test"} :
                       filepath.paths[i] = <<"cache/">> \o UrlOf(RegistryOrder[i], s)
            /\ Len(emitted) = Len(rows)
            /\ \A k \in 1..Len(emitted) :
                   /\ emitted[k][1] = k - 1
                   /\ emitted[k][2].id = str(k - 1)
                   /\ emitted[k][2].text = rows[k].text
                   /\ emitted[k][2].label = rows[k].label

C2_Witness ==
    LET rows == InputRows
        emitted == result.emitted
    IN
        /\ Finished /\ IsAggregate(config)
        /\ Len(emitted) = Len(RegistryOrder) * MaxRows
        /\ Len(disk[filepath.paths[1]]) = MaxRows
        /\ disk[filepath.paths[1]] # disk[filepath.paths[Len(filepath.paths)]]
        /\ \A k \in 1..Len(rows) : rows[k].id = MaxId
        /\ emitted[Len(emitted)][2].text = <<Len(RegistryOrder), MaxRows>>

----------------------------------------------------------------------------
(* C3 *)

\* C3 (as claimed): under the normalized schema every emitted label is one of the
\* seven labels, whatever the label column of the file holds.
C3_LabelsInSet ==
    LET rows == InputRows
        emitted == result.emitted
    IN
        (Finished /\ config.schema = <<"seacrowd", "_", "text">>) =>
            \A k \in 1..Len(emitted) : emitted[k][2].label \in LabelSet

\* C3 (amended): under the normalized schema the label of the k-th emitted record is
\* the label column of the k-th input row, unchanged; so every emitted label is one of
\* the seven declared labels exactly when every label of the file(s) is.
C3_LabelsCopied ==
    LET rows == InputRows
        emitted == result.emitted
    IN
        (Finished /\ config.schema = <<"seacrowd", "_", "text">>) =>
            /\ {_info(config).label_names[j] : j \in 1..Len(_info(config).label_names)} = LabelSet
            /\ Len(emitted) = Len(rows)
            /\ \A k \in 1..Len(emitted) : emitted[k][2].label = rows[k].label
            /\ (\A k \in 1..Len(emitted) : emitted[k][2].label \in LabelSet)
                   <=> (\A k \in 1..Len(rows) : rows[k].label \in LabelSet)

C3_Witness ==
    LET rows == InputRows
        emitted == result.emitted
    IN
        /\ Finished /\ config.schema = <<"seacrowd", "_", "text">>
        /\ \E k \in 1..Len(emitted) : emitted[k][2].label = "joy" /\ rows[k].label = "joy"
        /\ \E k \in 1..Len(emitted) : emitted[k][2].label = "sad"

----------------------------------------------------------------------------
(* C4 *)

ConfigsNamed(n) == {i \in 1..Len(BUILDER_CONFIGS) : BUILDER_CONFIGS[i].name = n}

\* C4: BUILDER_CONFIGS holds exactly 22 configurations: exactly one per (language,
\* schema) pair, named nusaparagraph_emot_<lang>_<schema> and carrying that schema,
\* exactly one aggregate per schema, named nusaparagraph_emot_<schema>, and no two
\* configurations share a name. (BUILDER_CONFIGS is a class attribute: the property
\* is evaluated where a builder has just been instantiated.)
C4_Registry ==
  phase = "ready" =>
    /\ Len(BUILDER_CONFIGS) = 22
    /\ \A l \in Languages \cup {<<>>}, sc \in Recognised :
           /\ Cardinality(ConfigsNamed(NameOf(l, sc))) = 1
           /\ \A i \in ConfigsNamed(NameOf(l, sc)) : BUILDER_CONFIGS[i].schema = sc
    /\ \A i \in 1..Len(BUILDER_CONFIGS) :
           \E l \in Languages \cup {<<>>}, sc \in Recognised :
               BUILDER_CONFIGS[i].name = NameOf(l, sc)
    /\ \A i, j \in 1..Len(BUILDER_CONFIGS) :
           BUILDER_CONFIGS[i].name = BUILDER_CONFIGS[j].name => i = j
    /\ config \in Registered =>
           (IsSingleLanguage(config) /\ ~IsAggregate(config))
               \/ (IsAggregate(config) /\ ~IsSingleLanguage(config))

C4_Witness ==
    /\ phase = "ready"
    /\ config = BUILDER_CONFIGS[22]
    /\ config.name = <<"nusaparagraph", "_", "emot", "_", "seacrowd", "_", "text">>

----------------------------------------------------------------------------
(* C5 *)

\* C5: seacrowd_config_constructor called with a schema other than source and
\* seacrowd_text raises the invalid-schema error and yields no configuration, for
\* every language argument, the empty one included; with a recognised schema it
\* raises nothing and yields a configuration of that schema.
C5_InvalidSchema ==
    phase = "constructed" =>
        /\ call.schema \notin Recognised =>
               built.raised = "ValueError: Invalid schema" /\ built.config = NoConfig
        /\ call.schema \in Recognised =>
               /\ built.raised = "none"
               /\ built.config.schema = call.schema
               /\ built.config.name = NameOf(call.lang, call.schema)

C5_Witness ==
    /\ phase = "constructed"
    /\ call.lang = <<>>
    /\ call.schema = <<"seacrowd">>
    /\ built.raised = "ValueError: Invalid schema"

----------------------------------------------------------------------------
(* C6 *)

----------------------------------------------------------------------------
(* C7 *)

\* C7: when the schema of the active configuration is neither source nor
\* seacrowd_text, emission raises the invalid-config error with no file parsed and no
\* record emitted; when it is one of the two, emission does not raise that error.
C7_InvalidConfig ==
    phase = "done" =>
        /\ config.schema \notin Recognised =>
               /\ result.raised = "ValueError: Invalid config"
               /\ result.parsed = 0
               /\ result.emitted = <<>>
        /\ config.schema \in Recognised => result.raised # "ValueError: Invalid config"

C7_Witness ==
    /\ phase = "done"
    /\ config.schema = <<"other">>
    /\ filepath.kind = "list"
    /\ \E i \in 1..Len(filepath.paths) : disk[filepath.paths[i]] # <<>>
    /\ result.raised = "ValueError: Invalid config"

----------------------------------------------------------------------------
(* C8 *)

\* the registered configuration of the same language scope under the other schema
Sibling(c) ==
    CHOOSE d \in Registered :
        /\ d.schema # c.schema
        /\ IsAggregate(c) => IsAggregate(d)
        /\ IsSingleLanguage(c) => IsSingleLanguage(d) /\ LanguageOf(d) = LanguageOf(c)

\* C8: for a registered configuration, the configuration of the same language scope
\* under the other schema is handed the same files and emits the same sequence of
\* (key, record) pairs; every emitted key is the integer the record's id spells.
C8_SchemaEquivalence ==
    LET rows == InputRows
        emitted == result.emitted
    IN
        (phase = "done" /\ config \in Registered) =>
            /\ _split_generators(Sibling(config)).splits = splits
            /\ _generate_examples(Sibling(config), filepath, disk) = result
            /\ \A k \in 1..Len(emitted) : int(emitted[k][2].id) = emitted[k][1]

C8_Witness ==
    LET rows == InputRows
        emitted == result.emitted
    IN
        /\ Finished
        /\ config.name = <<"nusaparagraph", "_", "emot", "_", "seacrowd", "_", "text">>
        /\ Sibling(config).name = <<"nusaparagraph", "_", "emot", "_", "source">>
        /\ Len(emitted) > 10
        /\ emitted[Len(emitted)][2].label = "joy"

----------------------------------------------------------------------------
(* C9 *)

\* C9: in the single-language case the key and id of each emitted row are the value
\* of that row's id column in the file; in the aggregate case the id column is
\* discarded and the rows are numbered afresh 0, 1, 2, ...
C9_IdAsymmetry ==
    LET rows == InputRows
        emitted == result.emitted
    IN
        Finished =>
            /\ IsSingleLanguage(config) =>
                   \A k \in 1..Len(emitted) :
                       emitted[k] = <<rows[k].id,
                                      [id |-> str(rows[k].id), text |-> rows[k].text,
                                       label |-> rows[k].label]>>
            /\ IsAggregate(config) =>
                   \A k \in 1..Len(emitted) :
                       emitted[k] = <<k - 1,
                                      [id |-> str(k - 1), text |-> rows[k].text,
                                       label |-> rows[k].label]>>

C9_WitnessSingle ==
    LET rows == InputRows
        emitted == result.emitted
    IN
        /\ Finished /\ IsSingleLanguage(config)
        /\ Len(emitted) = 2
        /\ emitted[1][1] = MaxId /\ emitted[2][1] = 0

C9_Witness ==
    LET rows == InputRows
        emitted == result.emitted
    IN
        /\ Finished /\ IsAggregate(config)
        /\ Len(emitted) >= 2
        /\ rows[1].id = MaxId /\ emitted[1][1] = 0
        /\ rows[2].id = MaxId /\ emitted[2][1] = 1

----------------------------------------------------------------------------
(* C10 *)

\* C10: DEFAULT_CONFIG_NAME is the name of a configuration of BUILDER_CONFIGS whose
\* language code is one of the 10 registered languages, so that instantiating the
\* builder by default always finds its configuration.
C10_DefaultRegistered ==
    /\ phase # "no default"
    /\ \E i \in 1..Len(BUILDER_CONFIGS) :
           /\ BUILDER_CONFIGS[i].name = DEFAULT_CONFIG_NAME
           /\ split(BUILDER_CONFIGS[i].name, "_")[3] \in Languages

====
